---------------------------- MODULE Spec2Model ----------------------------
(***************************************************************************)
(* Model of proxy-rs: the mihomo process supervisor (src/src/mihomo.rs),   *)
(* the tunnel sequence (src/src/tunnel.rs), the GitHub mirror selector    *)
(* (src/src/proxy_selector.rs), the configuration file (src/src/config.rs) *)
(* and main (src/src/main.rs).                                             *)
(*                                                                         *)
(* The specifications share the module's variables:                        *)
(*   Spec          the supervisor: start / stop / status and the process   *)
(*                 table of the operating system;                          *)
(*   TunnelSpec    try_tunnel_service;                                     *)
(*   SelectorSpec  select_fastest_github_proxy;                            *)
(*   SelectorAnyOrderSpec  the same probes, made in any order;             *)
(*   ConfigSpec    update_mixed_port and parse_mixed_port (config.rs);     *)
(*   MainSpec      one run of the tool: main dispatches one command.       *)
(*                                                                         *)
(* File operations are atomic: a failed write or removal changes nothing.  *)
(***************************************************************************)
EXTENDS Integers, Sequences, FiniteSets

(***************************************************************************)
(* Bounds of the model.                                                    *)
(***************************************************************************)
\* the process ids the operating system hands out are FirstPid .. FirstPid+NumPids-1
FirstPid == 9
NumPids == 2
\* processes (managed or unrelated) created in one behaviour
MaxProcs == 3
\* response times of a probe, in time units
MaxElapsed == 3
\* keys of config.yaml before it is patched
MaxKeys == 2

VARIABLES
    \* ---- supervisor (mihomo.rs) ----
    record,     \* the file proxy-data/mihomo.pid: [exists, content]
    table,      \* the process table: pid -> process identity (0: no process)
    ours,       \* identities of the processes spawned by MihomoManager::start
    nextId,     \* next fresh process identity
    pc,         \* position of the running command ("idle": none running)
    prevProc,   \* process start found running (0: none)
    newPid,     \* pid of the child spawned by the start in progress (None: none)
    newProc,    \* identity of that child (0: none)
    patched,    \* config.yaml keys written by the start in progress
    signalled,  \* identities of the processes kill_and_wait was called on
    started,    \* start has been called at least once
    last,       \* the last command that returned: [op, res, out, saw]
    quiet,      \* nothing changed in the process table since `last` returned
    lastSpawn,  \* the most recent successful spawn: [pid, proc, saved, returnedOk]
    \* ---- tunnel (tunnel.rs) ----
    sshFound, tpc, idx, attempted, exitCodes, answers, tresult,
    running,    \* the services (by position) whose command is running
    \* ---- mirror selector (proxy_selector.rs) ----
    spc, probed, results, selected,
    clock,      \* the monotonic clock read by Instant::now()
    took,       \* what each request did and how long it took
    \* ---- configuration file (config.rs) ----
    doc,        \* config.yaml: [mapping, entries]
    cpc,        \* "init", "updated" (update_mixed_port returned), "read"
    docBefore,  \* config.yaml as it was before update_mixed_port
    newPort,    \* the port given to update_mixed_port
    updateRes,  \* what update_mixed_port returned
    readPort,   \* what parse_mixed_port returned
    \* ---- main (main.rs) ----
    cmd,        \* the subcommand on the command line ("none": not yet parsed)
    manager,    \* MihomoManager::new(): "none" (not yet called), "ok" or "failed"
    exitCode    \* the exit code of the run (None: still running)

supVars == <<record, table, ours, nextId, pc, prevProc, newPid, newProc,
             patched, signalled, started, last, quiet, lastSpawn>>
tunVars == <<sshFound, tpc, idx, attempted, running, exitCodes, answers, tresult>>
selVars == <<spc, probed, results, selected, clock, took>>
cfgVars == <<doc, cpc, docBefore, newPort, updateRes, readPort>>
mainVars == <<cmd, manager, exitCode>>
vars == <<supVars, tunVars, selVars, cfgVars, mainVars>>

(***************************************************************************)
(* The supervisor: MihomoManager (mihomo.rs)                               *)
(***************************************************************************)
Pids == FirstPid .. (FirstPid + NumPids - 1)
None == -1
NoFile == [exists |-> FALSE, content |-> << >>]

Range(f) == {f[x] : x \in DOMAIN f}

\* mutant of PidToString: the id is written in hexadecimal (format!("{:x}"))
PidToStringHex(n) == IF n < 16 THEN <<n>> ELSE <<n \div 16, n % 16>>

\* u32::to_string: the decimal digits of n, most significant first
RECURSIVE PidToString(_)
PidToString(n) == IF n < 10 THEN <<n>> ELSE Append(PidToString(n \div 10), n % 10)

RECURSIVE DigitsValue(_)
DigitsValue(s) ==
    IF Len(s) = 0 THEN 0
    ELSE 10 * DigitsValue(SubSeq(s, 1, Len(s) - 1)) + s[Len(s)]

\* sysinfo::Pid::from_str(..).ok(): the number, None when the text is no number
FromStr(s) ==
    IF Len(s) = 0 \/ \E i \in 1..Len(s) : s[i] \notin 0..9 THEN None
    ELSE DigitsValue(s)

\* load_pid: fs::read_to_string(MIHOMO_PID_FILE).ok().and_then(from_str(..).ok())
LoadPid == IF record.exists THEN FromStr(record.content) ELSE None

\* system.process(pid) on a fresh snapshot: the process with that pid, 0 if none
Process(pid) == IF pid \in DOMAIN table THEN table[pid] ELSE 0

\* is_running: what it returns
IsRunningOut ==
    IF LoadPid = None THEN None
    ELSE IF Process(LoadPid) # 0 THEN LoadPid ELSE None

\* mutant of IsRunningRecord: the stale record is left in place
IsRunningRecordKeepsStale == record

\* is_running: the record file afterwards (a stale record is removed)
IsRunningRecord ==
    IF LoadPid # None /\ Process(LoadPid) = 0 THEN NoFile ELSE record

\* is_running: what it found
IsRunningSaw ==
    IF LoadPid = None THEN "absent"
    ELSE IF Process(LoadPid) # 0 THEN "live" ELSE "stale"

\* mutant of StopResult: a stop that finds no process is reported as a failure
StopResultNotFoundIsError(delivered) ==
    IF Process(LoadPid) # 0 /\ delivered THEN "ok" ELSE "err"

\* mutant of StopResult: the error of kill_and_wait is dropped
StopResultKillErrorDropped(delivered) == "ok"

\* stop: its result; kill_and_wait fails when the signal is not delivered
StopResult(delivered) ==
    IF Process(LoadPid) # 0 /\ ~delivered THEN "err" ELSE "ok"

\* mutant of StopBody: the record is removed only after a kill
StopBodyKeepsStale(delivered) ==
    LET pid == LoadPid
        p == Process(pid)
    IN  IF p # 0
        THEN /\ signalled' = signalled \cup {p}
             /\ IF delivered
                THEN /\ table' = [table EXCEPT ![pid] = 0]
                     /\ record' = NoFile
                ELSE UNCHANGED <<table, record>>
        ELSE UNCHANGED <<signalled, table, record>>

\* stop: what it does to the process table and to the record file
StopBody(delivered) ==
    LET pid == LoadPid
        p == Process(pid)
    IN  IF p # 0
        THEN /\ signalled' = signalled \cup {p}
             /\ IF delivered
                THEN /\ table' = [table EXCEPT ![pid] = 0]
                     /\ record' = NoFile
                ELSE UNCHANGED <<table, record>>
        ELSE /\ record' = NoFile
             /\ UNCHANGED <<signalled, table>>

Returned(op, res, out, saw) == [op |-> op, res |-> res, out |-> out, saw |-> saw]

\* `proxy-rs status`
Status ==
    /\ UNCHANGED <<tunVars, selVars, cfgVars, mainVars>>
    /\ UNCHANGED lastSpawn
    /\ pc = "idle"
    /\ record' = IsRunningRecord
    /\ last' = Returned("status", "ok", IsRunningOut, IsRunningSaw)
    /\ quiet' = TRUE
    /\ UNCHANGED <<table, ours, nextId, pc, prevProc, newPid, newProc, patched,
                   signalled, started>>

\* `proxy-rs stop`
Stop ==
    /\ UNCHANGED <<tunVars, selVars, cfgVars, mainVars>>
    /\ UNCHANGED lastSpawn
    /\ pc = "idle"
    /\ \E delivered \in BOOLEAN :
         /\ StopBody(delivered)
         /\ last' = Returned("stop", StopResult(delivered), None, IsRunningSaw)
    /\ quiet' = TRUE
    /\ UNCHANGED <<ours, nextId, pc, prevProc, newPid, newProc, patched, started>>

\* mutant of AfterIsRunning: the running process is not stopped first
AfterIsRunningNoStop(out) == "start_provision"

\* start, lines 63-66: a running process is stopped before anything else
AfterIsRunning(out) == IF out # None THEN "start_stop" ELSE "start_provision"

\* `proxy-rs start`, line 63: if let Some(pid) = self.is_running()?
StartIsRunning ==
    /\ UNCHANGED <<tunVars, selVars, cfgVars, mainVars>>
    /\ UNCHANGED lastSpawn
    /\ pc = "idle"
    /\ record' = IsRunningRecord
    /\ prevProc' = Process(IsRunningOut)
    /\ pc' = AfterIsRunning(IsRunningOut)
    /\ started' = TRUE
    /\ newPid' = None
    /\ newProc' = 0
    /\ patched' = {}
    /\ UNCHANGED <<table, ours, nextId, signalled, last, quiet>>

\* mutant of StartStop: the error of the internal stop is dropped
\* (let _ = self.stop()) and start carries on
StartStopIgnoresError ==
    /\ UNCHANGED <<tunVars, selVars, cfgVars, mainVars>>
    /\ UNCHANGED lastSpawn
    /\ pc = "start_stop"
    /\ \E delivered \in BOOLEAN : StopBody(delivered)
    /\ pc' = "start_provision"
    /\ UNCHANGED <<last, quiet>>
    /\ UNCHANGED <<ours, nextId, prevProc, newPid, newProc, patched, started>>

\* start, line 65: self.stop()?
StartStop ==
    /\ UNCHANGED <<tunVars, selVars, cfgVars, mainVars>>
    /\ UNCHANGED lastSpawn
    /\ pc = "start_stop"
    /\ \E delivered \in BOOLEAN :
         /\ StopBody(delivered)
         /\ IF StopResult(delivered) = "err"
            THEN /\ pc' = "idle"
                 /\ last' = Returned("start", "err", None, "live")
                 /\ quiet' = TRUE
            ELSE /\ pc' = "start_provision"
                 /\ UNCHANGED <<last, quiet>>
    /\ UNCHANGED <<ours, nextId, prevProc, newPid, newProc, patched, started>>

\* mutant of StartProvision: the two keys are written to config.yaml while
\* provisioning, before the process is spawned
StartProvisionPatchesFirst ==
    /\ UNCHANGED <<tunVars, selVars, cfgVars, mainVars>>
    /\ UNCHANGED lastSpawn
    /\ pc = "start_provision"
    /\ \E ok \in BOOLEAN :
         IF ok
         THEN /\ pc' = "start_spawn"
              /\ patched' = {"mixed-port", "external-controller"}
              /\ UNCHANGED <<last, quiet>>
         ELSE /\ pc' = "idle"
              /\ last' = Returned("start", "err", None, "absent")
              /\ quiet' = TRUE
              /\ UNCHANGED patched
    /\ UNCHANGED <<record, table, ours, nextId, prevProc, newPid, newProc,
                   signalled, started>>

\* start, lines 68-95: downloads, subscription config, port, log files; each `?`
StartProvision ==
    /\ UNCHANGED <<tunVars, selVars, cfgVars, mainVars>>
    /\ UNCHANGED lastSpawn
    /\ pc = "start_provision"
    /\ \E ok \in BOOLEAN :
         IF ok
         THEN /\ pc' = "start_spawn"
              /\ UNCHANGED <<last, quiet>>
         ELSE /\ pc' = "idle"
              /\ last' = Returned("start", "err", None, "absent")
              /\ quiet' = TRUE
    /\ UNCHANGED <<record, table, ours, nextId, prevProc, newPid, newProc,
                   patched, signalled, started>>

\* start, line 97: command.stdout(..).stderr(..).spawn()?
StartSpawn ==
    /\ UNCHANGED <<tunVars, selVars, cfgVars, mainVars>>
    /\ pc = "start_spawn"
    /\ \/ \* the executable cannot be spawned
          /\ pc' = "idle"
          /\ last' = Returned("start", "err", None, "absent")
          /\ quiet' = TRUE
          /\ UNCHANGED <<table, ours, nextId, newPid, newProc, lastSpawn>>
       \/ \* the child gets a free pid
          /\ nextId <= MaxProcs
          /\ \E pid \in Pids :
               /\ table[pid] = 0
               /\ table' = [table EXCEPT ![pid] = nextId]
               /\ newPid' = pid
               /\ lastSpawn' = [pid |-> pid, proc |-> nextId, saved |-> FALSE,
                                returnedOk |-> FALSE]
          /\ newProc' = nextId
          /\ ours' = ours \cup {nextId}
          /\ nextId' = nextId + 1
          /\ pc' = "start_save"
          /\ UNCHANGED <<last, quiet>>
    /\ UNCHANGED <<record, prevProc, patched, signalled, started>>

\* mutant of StartSavePid: a failed write of the record is not an error
\* (let _ = self.save_pid(child)) and start carries on
StartSavePidIgnoresError ==
    /\ UNCHANGED <<tunVars, selVars, cfgVars, mainVars>>
    /\ pc = "start_save"
    /\ \E written \in BOOLEAN :
         IF written
         THEN /\ record' = [exists |-> TRUE, content |-> PidToString(newPid)]
              /\ lastSpawn' = [lastSpawn EXCEPT !.saved = TRUE]
         ELSE UNCHANGED <<record, lastSpawn>>
    /\ pc' = "start_patch"
    /\ UNCHANGED <<last, quiet>>
    /\ UNCHANGED <<table, ours, nextId, prevProc, newPid, newProc, patched,
                   signalled, started>>

\* start, line 98: self.save_pid(child)? (fs::write of child.id().to_string())
StartSavePid ==
    /\ UNCHANGED <<tunVars, selVars, cfgVars, mainVars>>
    /\ pc = "start_save"
    /\ \E written \in BOOLEAN :
         IF written
         THEN /\ record' = [exists |-> TRUE, content |-> PidToString(newPid)]
              /\ lastSpawn' = [lastSpawn EXCEPT !.saved = TRUE]
              /\ pc' = "start_patch"
              /\ UNCHANGED <<last, quiet>>
         ELSE /\ pc' = "idle"
              /\ last' = Returned("start", "err", None, "absent")
              /\ quiet' = TRUE
              /\ UNCHANGED <<record, lastSpawn>>
    /\ UNCHANGED <<table, ours, nextId, prevProc, newPid, newProc, patched,
                   signalled, started>>

\* the steps of start after the record is written, in program order
PatchSteps == <<"find_unused_port", "mixed-port", "external-controller", "env-script">>
ConfigKeys == {"mixed-port", "external-controller"}

\* mutant of StartPatch: a start that fails after the save undoes the record
StartPatchFailureRemovesRecord ==
    /\ UNCHANGED <<tunVars, selVars, cfgVars, mainVars>>
    /\ pc = "start_patch"
    /\ \E failAt \in 0..Len(PatchSteps) :
         /\ patched' = {PatchSteps[i] : i \in 1..(IF failAt = 0 THEN Len(PatchSteps)
                                                  ELSE failAt - 1)} \cap ConfigKeys
         /\ last' = Returned("start", IF failAt = 0 THEN "ok" ELSE "err", None,
                             IF prevProc # 0 THEN "live" ELSE "absent")
         /\ lastSpawn' = [lastSpawn EXCEPT !.returnedOk = (failAt = 0)]
         /\ record' = IF failAt = 0 THEN record ELSE NoFile
    /\ pc' = "idle"
    /\ quiet' = TRUE
    /\ UNCHANGED <<table, ours, nextId, prevProc, newPid, newProc,
                   signalled, started>>

\* start, lines 102-120: find_unused_port(7890), update_mixed_port,
\* update_external_controller, write_env_setup_script; the first failing step
\* (failAt) returns the error, failAt = 0 is no failure
StartPatch ==
    /\ UNCHANGED <<tunVars, selVars, cfgVars, mainVars>>
    /\ pc = "start_patch"
    /\ \E failAt \in 0..Len(PatchSteps) :
         /\ patched' = {PatchSteps[i] : i \in 1..(IF failAt = 0 THEN Len(PatchSteps)
                                                  ELSE failAt - 1)} \cap ConfigKeys
         /\ last' = Returned("start", IF failAt = 0 THEN "ok" ELSE "err", None,
                             IF prevProc # 0 THEN "live" ELSE "absent")
         /\ lastSpawn' = [lastSpawn EXCEPT !.returnedOk = (failAt = 0)]
    /\ pc' = "idle"
    /\ quiet' = TRUE
    /\ UNCHANGED <<record, table, ours, nextId, prevProc, newPid, newProc,
                   signalled, started>>

(***************************************************************************)
(* The operating system.  A command is one short run of the tool; the      *)
(* process table changes between runs, and between the two snapshots that  *)
(* start takes of it (is_running, then stop).                              *)
(***************************************************************************)
EnvMayStep == pc \in {"idle", "start_stop"}

\* a process exits on its own: its pid becomes free
ExternalExit ==
    /\ UNCHANGED <<tunVars, selVars, cfgVars, mainVars>>
    /\ UNCHANGED lastSpawn
    /\ EnvMayStep
    /\ \E pid \in Pids :
         /\ table[pid] # 0
         /\ table' = [table EXCEPT ![pid] = 0]
    /\ quiet' = FALSE
    /\ UNCHANGED <<record, ours, nextId, pc, prevProc, newPid, newProc, patched,
                   signalled, started, last>>

\* an unrelated process is created and gets a free pid
ForeignSpawn ==
    /\ UNCHANGED <<tunVars, selVars, cfgVars, mainVars>>
    /\ UNCHANGED lastSpawn
    /\ pc = "idle"
    /\ nextId <= MaxProcs
    /\ \E pid \in Pids :
         /\ table[pid] = 0
         /\ table' = [table EXCEPT ![pid] = nextId]
    /\ nextId' = nextId + 1
    /\ quiet' = FALSE
    /\ UNCHANGED <<record, ours, pc, prevProc, newPid, newProc, patched,
                   signalled, started, last>>

SupInit ==
    /\ record = NoFile
    /\ table = [pid \in Pids |-> 0]
    /\ ours = {}
    /\ nextId = 1
    /\ pc = "idle"
    /\ prevProc = 0
    /\ newPid = None
    /\ newProc = 0
    /\ patched = {}
    /\ signalled = {}
    /\ started = FALSE
    /\ last = Returned("none", "ok", None, "absent")
    /\ quiet = TRUE
    /\ lastSpawn = [pid |-> None, proc |-> 0, saved |-> FALSE, returnedOk |-> FALSE]


(***************************************************************************)
(* The tunnel sequence: try_tunnel_service (tunnel.rs)                     *)
(***************************************************************************)
\* the services vector, in its order
Services == <<"localhost.run", "serveo.net", "pinggy.io">>

\* exit codes a child may end with; a child killed by a signal has no code
NoCode == -1
ChildEnds == {0, 1, 255, NoCode}

\* line 68: status.map(|s| s.code().unwrap_or(1)).unwrap_or(1)
\* launched = FALSE: cmd.status() returned Err (the command could not be run)
ExitCode(launched, code) == IF launched /\ code # NoCode THEN code ELSE 1

\* mutant of SshMissingReturns: the sequence goes on without ssh
SshMissingReturnsNever(found) == FALSE

\* line 20: if which::which("ssh").is_err() { ...; return Ok(()) }
SshMissingReturns(found) == ~found

\* lines 20-23: which::which("ssh") is looked up once, on entry; found is
\* whether it returned Ok
TunnelCheck ==
    /\ UNCHANGED <<supVars, selVars, cfgVars, mainVars>>
    /\ tpc = "check"
    /\ \E found \in BOOLEAN :
         /\ sshFound' = IF found THEN "found" ELSE "missing"
         /\ IF SshMissingReturns(found)
            THEN /\ tpc' = "done"
                 /\ tresult' = "ok"
            ELSE /\ tpc' = "launch"
                 /\ UNCHANGED tresult
    /\ UNCHANGED <<idx, attempted, running, exitCodes, answers>>

\* mutant of TunnelLaunch: the command is started with spawn() and not waited
\* for; the confirmation is asked while it runs
TunnelLaunchNoWait ==
    /\ UNCHANGED <<supVars, selVars, cfgVars, mainVars>>
    /\ tpc = "launch"
    /\ IF idx > Len(Services)
       THEN /\ tpc' = "done"
            /\ tresult' = "ok"
            /\ UNCHANGED <<attempted, running, exitCodes>>
       ELSE /\ attempted' = Append(attempted, Services[idx])
            /\ UNCHANGED tresult
            /\ \E launched \in BOOLEAN :
                 /\ running' = IF launched THEN running \cup {idx} ELSE running
                 /\ exitCodes' = Append(exitCodes, ExitCode(FALSE, NoCode))
            /\ tpc' = "confirm"
    /\ UNCHANGED <<sshFound, idx, answers>>

\* lines 61-66: the next service's command is run; for service in services ends
\* the function with Ok(()) when the vector is exhausted
TunnelLaunch ==
    /\ UNCHANGED <<supVars, selVars, cfgVars, mainVars>>
    /\ tpc = "launch"
    /\ IF idx > Len(Services)
       THEN /\ tpc' = "done"
            /\ tresult' = "ok"
            /\ UNCHANGED <<attempted, running, exitCodes>>
       ELSE /\ attempted' = Append(attempted, Services[idx])
            /\ UNCHANGED tresult
            /\ \E launched \in BOOLEAN :
                 IF launched
                 THEN /\ running' = running \cup {idx}
                      /\ tpc' = "wait"
                      /\ UNCHANGED exitCodes
                 ELSE /\ exitCodes' = Append(exitCodes, ExitCode(FALSE, NoCode))
                      /\ tpc' = "confirm"
                      /\ UNCHANGED running
    /\ UNCHANGED <<sshFound, idx, answers>>

\* mutant of TunnelChildExit: a non-zero exit code is returned as an error
TunnelChildExitFailsOnNonZero ==
    /\ UNCHANGED <<supVars, selVars, cfgVars, mainVars>>
    /\ tpc = "wait"
    /\ \E code \in ChildEnds :
         /\ exitCodes' = Append(exitCodes, ExitCode(TRUE, code))
         /\ IF ExitCode(TRUE, code) # 0
            THEN /\ tpc' = "done"
                 /\ tresult' = "err"
            ELSE /\ tpc' = "confirm"
                 /\ UNCHANGED tresult
    /\ running' = running \ {idx}
    /\ UNCHANGED <<sshFound, idx, attempted, answers>>

\* line 66: cmd.status() blocks until the child has exited
TunnelChildExit ==
    /\ UNCHANGED <<supVars, selVars, cfgVars, mainVars>>
    /\ tpc = "wait"
    /\ \E code \in ChildEnds :
         exitCodes' = Append(exitCodes, ExitCode(TRUE, code))
    /\ running' = running \ {idx}
    /\ tpc' = "confirm"
    /\ UNCHANGED <<sshFound, idx, attempted, answers, tresult>>

\* mutant of AfterAnswer: the answer is ignored
AfterAnswerIgnored(yes) == "launch"

\* lines 74-76: if !ask_for_confirmation(..) { break; }
AfterAnswer(yes) == IF yes THEN "launch" ELSE "break"

\* lines 74-79: the confirmation, then the next iteration or break and Ok(())
TunnelConfirm ==
    /\ UNCHANGED <<supVars, selVars, cfgVars, mainVars>>
    /\ tpc = "confirm"
    /\ \E yes \in BOOLEAN :
         /\ answers' = Append(answers, yes)
         /\ IF AfterAnswer(yes) = "launch"
            THEN /\ idx' = idx + 1
                 /\ tpc' = "launch"
                 /\ UNCHANGED tresult
            ELSE /\ tpc' = "done"
                 /\ tresult' = "ok"
                 /\ UNCHANGED idx
    /\ UNCHANGED <<sshFound, attempted, running, exitCodes>>

TunInit ==
    /\ sshFound = "unchecked"
    /\ tpc = "check"
    /\ idx = 1
    /\ attempted = << >>
    /\ running = {}
    /\ exitCodes = << >>
    /\ answers = << >>
    /\ tresult = "none"

(***************************************************************************)
(* The mirror selector: select_fastest_github_proxy (proxy_selector.rs)    *)
(***************************************************************************)
\* GITHUB_PROXIES, in its order; "" is the direct connection
GithubProxies == <<"", "https://github.akams.cn/", "https://github.moeyy.xyz/",
                   "https://tvv.tw/">>

\* what client.get(&url).send() may give: a response with a success status, a
\* response with another status (both after `elapsed` time units), an error, or
\* the client's timeout
Failure(kind) == [kind |-> kind, elapsed |-> 0]
Outcomes == [kind : {"success", "bad_status"}, elapsed : 1..MaxElapsed]
            \cup {Failure("error"), Failure("timeout")}

\* mutant of Kept: the status of the response is not looked at
KeptAnyResponse(o) == o.kind \in {"success", "bad_status"}

\* line 34: Ok(response) if response.status().is_success()
Kept(o) == o.kind = "success"

\* mutant of FilterMap: the scan ends at the first candidate that is not kept
RECURSIVE FilterMapWhile(_)
FilterMapWhile(ps) ==
    IF Len(ps) = 0 THEN << >>
    ELSE LET front == SubSeq(ps, 1, Len(ps) - 1)
         IN  IF Kept(ps[Len(ps)]) /\ \A i \in 1..Len(front) : Kept(front[i])
             THEN Append(FilterMapWhile(front),
                         <<GithubProxies[Len(ps)], ps[Len(ps)].elapsed>>)
             ELSE FilterMapWhile(front)

\* lines 22-45: GITHUB_PROXIES.iter().filter_map(..).collect(), over the probes
\* made so far: the (proxy, elapsed) pairs of the kept ones, in input order
RECURSIVE FilterMap(_)
FilterMap(ps) ==
    IF Len(ps) = 0 THEN << >>
    ELSE LET front == FilterMap(SubSeq(ps, 1, Len(ps) - 1))
         IN  IF Kept(ps[Len(ps)])
             THEN Append(front, <<GithubProxies[Len(ps)], ps[Len(ps)].elapsed>>)
             ELSE front

\* mutant of TakesOver: a later element with an equal key replaces the minimum
TakesOverOnTie(best, cand) == cand[2] <= best[2]

\* min_by_key's comparison: a later element replaces the minimum kept so far
\* only when its key is strictly smaller
TakesOver(best, cand) == cand[2] < best[2]

RECURSIVE MinScan(_, _, _)
MinScan(rs, i, best) ==
    IF i > Len(rs) THEN best
    ELSE MinScan(rs, i + 1, IF TakesOver(best, rs[i]) THEN rs[i] ELSE best)

\* line 47: results.iter().min_by_key(|(_, t)| *t), for a non-empty rs
MinByKey(rs) == MinScan(rs, 2, rs[1])

NotSelected == [ok |-> FALSE, proxy |-> "none"]
NoProxyAvailable == [ok |-> FALSE, proxy |-> "No GitHub proxy available"]

\* lines 47-58: Ok(fastest proxy), or Err when no result was collected
SelectResult(rs) ==
    IF Len(rs) > 0 THEN [ok |-> TRUE, proxy |-> MinByKey(rs)[1]]
    ELSE NoProxyAvailable

\* mutant of Elapsed: start_time is taken once, before the first probe
ElapsedSinceFirstProbe(startTime, now) == now

\* lines 26 and 35: start_time = Instant::now() before the request,
\* start_time.elapsed() after it
Elapsed(startTime, now) == now - startTime

\* what the closure sees of a request o begun at startTime: its kind, and the
\* elapsed time it measures for a response
Measured(o, startTime) ==
    IF o.kind \in {"success", "bad_status"}
    THEN [kind |-> o.kind, elapsed |-> Elapsed(startTime, startTime + o.elapsed)]
    ELSE o

\* lines 24-44: the next candidate is probed
SelProbe ==
    /\ UNCHANGED <<supVars, tunVars, cfgVars, mainVars>>
    /\ spc = "probe"
    /\ Len(probed) < Len(GithubProxies)
    /\ \E o \in Outcomes :
         /\ probed' = Append(probed, Measured(o, clock))
         /\ took' = Append(took, o)
         /\ clock' = clock + o.elapsed
         /\ results' = FilterMap(probed')
    /\ UNCHANGED <<spc, selected>>

\* lines 47-58: all candidates probed, the fastest is returned
SelFinish ==
    /\ UNCHANGED <<supVars, tunVars, cfgVars, mainVars>>
    /\ spc = "probe"
    /\ Len(probed) = Len(GithubProxies)
    /\ \A i \in 1..Len(probed) : probed[i].kind # "unprobed"
    /\ selected' = SelectResult(results)
    /\ spc' = "done"
    /\ UNCHANGED <<probed, results, clock, took>>

\* a candidate whose request has not been made yet
Unprobed == [kind |-> "unprobed", elapsed |-> 0]
NoneProbed == [i \in 1..Len(GithubProxies) |-> Unprobed]

\* lines 24-44 for any one candidate not yet probed: the closure is run for
\* candidate i with a request that began at startTime, at the current time
\* (sequential probing, in any order) or earlier (a request overlapping the
\* ones made before); its result is kept at the candidate's input position
SelProbeAny ==
    /\ UNCHANGED <<supVars, tunVars, cfgVars, mainVars>>
    /\ spc = "probe"
    /\ \E i \in 1..Len(GithubProxies) :
         /\ probed[i] = Unprobed
         /\ \E o \in Outcomes, startTime \in 0..clock :
              /\ probed' = [probed EXCEPT ![i] = Measured(o, startTime)]
              /\ took' = [took EXCEPT ![i] = o]
              /\ clock' = IF startTime + o.elapsed > clock
                          THEN startTime + o.elapsed ELSE clock
              /\ results' = FilterMap(probed')
    /\ UNCHANGED <<spc, selected>>

SelAnyOrderInit ==
    /\ spc = "probe"
    /\ probed = NoneProbed
    /\ results = << >>
    /\ selected = NotSelected
    /\ clock = 0
    /\ took = NoneProbed

SelInit ==
    /\ spc = "probe"
    /\ probed = << >>
    /\ results = << >>
    /\ selected = NotSelected
    /\ clock = 0
    /\ took = << >>

(***************************************************************************)
(* The configuration file: parse_mixed_port, update_mixed_port (config.rs) *)
(*                                                                         *)
(* config.yaml is a YAML document: a mapping, written as a sequence of     *)
(* entries `key: scalar`, or something that is no mapping.  A scalar is    *)
(* its text, a sequence of characters (0..9 the digits, LetterA a letter), *)
(* and whether it is written in quotes.                                    *)
(***************************************************************************)
LetterA == 10
U16Modulus == 65536

Keys == {"mixed-port", "port", "mode"}
ScalarTexts == {<<8, 0>>, <<7, 0, 0, 0, 0>>, <<LetterA>>}
Ports == {0, 7890, U16Modulus - 1}

IsNumber(text) == Len(text) > 0 /\ \A i \in 1..Len(text) : text[i] \in 0..9

\* serde_yaml::Value of a number and of a string
IntValue(n) == [type |-> "int", n |-> n, s |-> << >>]
StrValue(text) == [type |-> "str", n |-> 0, s |-> text]
NoValue == [type |-> "none", n |-> 0, s |-> << >>]

\* serde_yaml::from_str on one scalar: plain digits are a number, anything
\* quoted and anything else is a string
ParseScalar(e) ==
    IF ~e.quoted /\ IsNumber(e.text) THEN IntValue(DigitsValue(e.text))
    ELSE StrValue(e.text)

\* serde_yaml::from_str::<Value>(&content), for a mapping: its (key, value)
\* pairs in document order
FromYaml(d) ==
    [i \in 1..Len(d.entries) |->
        [key |-> d.entries[i].key, value |-> ParseScalar(d.entries[i])]]

\* mutant of ToYamlScalar: strings are never quoted
ToYamlScalarNeverQuoted(v) ==
    IF v.type = "int" THEN [text |-> PidToString(v.n), quoted |-> FALSE]
    ELSE [text |-> v.s, quoted |-> FALSE]

\* serde_yaml::to_string on one scalar: a number in decimal, a string in
\* quotes when its plain text would read back as a number
ToYamlScalar(v) ==
    IF v.type = "int" THEN [text |-> PidToString(v.n), quoted |-> FALSE]
    ELSE [text |-> v.s, quoted |-> IsNumber(v.s)]

\* serde_yaml::to_string(&yaml), for a mapping
ToYaml(m) ==
    [mapping |-> TRUE,
     entries |-> [i \in 1..Len(m) |->
                    [key |-> m[i].key,
                     text |-> ToYamlScalar(m[i].value).text,
                     quoted |-> ToYamlScalar(m[i].value).quoted]]]

HasKey(m, key) == \E i \in 1..Len(m) : m[i].key = key

\* Mapping::get
MapGet(m, key) ==
    IF HasKey(m, key)
    THEN m[CHOOSE i \in 1..Len(m) : m[i].key = key].value
    ELSE NoValue

\* Mapping::insert: the value of a present key is replaced where it stands, a
\* new key is added at the end
MapInsert(m, key, value) ==
    IF HasKey(m, key)
    THEN [i \in 1..Len(m) |->
            IF m[i].key = key THEN [key |-> key, value |-> value] ELSE m[i]]
    ELSE Append(m, [key |-> key, value |-> value])

\* lines 89 and 92: port.as_u64().map(|p| p as u16)
AsU16(v) == IF v.type = "int" THEN v.n % U16Modulus ELSE None

\* parse_mixed_port, lines 84-98
ParseMixedPort(d) ==
    IF ~d.mapping THEN None
    ELSE LET m == FromYaml(d)
         IN  IF HasKey(m, "mixed-port") THEN AsU16(MapGet(m, "mixed-port"))
             ELSE IF HasKey(m, "port") THEN AsU16(MapGet(m, "port"))
             ELSE None

\* update_mixed_port, lines 100-109: its result; io is whether the file could
\* be read and written
UpdateMixedPortResult(d, io) == IF io /\ d.mapping THEN "ok" ELSE "err"

\* update_mixed_port, lines 100-109: the file afterwards
UpdateMixedPortDoc(d, port, io) ==
    IF io /\ d.mapping
    THEN ToYaml(MapInsert(FromYaml(d), "mixed-port", IntValue(port)))
    ELSE d

\* update_mixed_port(config_path, port)
CfgUpdate ==
    /\ UNCHANGED <<supVars, tunVars, selVars, mainVars>>
    /\ cpc = "init"
    /\ \E port \in Ports, io \in BOOLEAN :
         /\ newPort' = port
         /\ updateRes' = UpdateMixedPortResult(doc, io)
         /\ doc' = UpdateMixedPortDoc(doc, port, io)
    /\ docBefore' = doc
    /\ cpc' = "updated"
    /\ UNCHANGED readPort

\* parse_mixed_port(config_path)
CfgParse ==
    /\ UNCHANGED <<supVars, tunVars, selVars, mainVars>>
    /\ cpc = "updated"
    /\ readPort' = ParseMixedPort(doc)
    /\ cpc' = "read"
    /\ UNCHANGED <<doc, docBefore, newPort, updateRes>>

Scalars == [key : Keys, text : ScalarTexts, quoted : BOOLEAN]
NotAMapping == [mapping |-> FALSE, entries |-> << >>]

\* the documents config.yaml may hold: mappings with distinct keys, and a
\* document that is no mapping
Docs ==
    {NotAMapping} \cup
    {[mapping |-> TRUE, entries |-> es] :
        es \in {e \in UNION {[1..n -> Scalars] : n \in 0..MaxKeys} :
                   \A i, j \in 1..Len(e) : i # j => e[i].key # e[j].key}}

CfgRest ==
    /\ cpc = "init"
    /\ docBefore = doc
    /\ newPort = None
    /\ updateRes = "none"
    /\ readPort = None

\* no configuration file is looked at
CfgIdle == doc = [mapping |-> TRUE, entries |-> << >>] /\ CfgRest

\* config.yaml holds any document
CfgInit == doc \in Docs /\ CfgRest

MainIdle == cmd = "none" /\ manager = "none" /\ exitCode = None

(***************************************************************************)
(* One run of the tool: main (main.rs)                                     *)
(***************************************************************************)
\* the subcommands of cli.rs that main dispatches, and no subcommand at all
Commands == {"status", "start", "stop", "tunnel"}
NoCommand == "nothing"

\* lines 29-35: the Result of the function the command was dispatched to
MainResult ==
    IF cmd = "tunnel" THEN tresult
    ELSE IF cmd = NoCommand THEN "ok"
    ELSE last.res

\* the dispatched function has returned
MainReturned ==
    /\ manager = "ok"
    /\ \/ cmd \in {"status", "start", "stop"} /\ pc = "idle" /\ last.op = cmd
       \/ cmd = "tunnel" /\ tpc = "done"
       \/ cmd = NoCommand

\* mutant of MainExitCode: the result of the command is dropped
MainExitCodeIgnoresResult(res) == 0

\* lines 37-40: if let Err(e) = result { ...; std::process::exit(1) }, and the
\* exit code 0 of a main that returns
MainExitCode(res) == IF res = "err" THEN 1 ELSE 0

\* line 23: Cli::parse() of a well-formed command line
MainParse ==
    /\ cmd = "none"
    /\ cmd' \in Commands \cup {NoCommand}
    /\ UNCHANGED <<supVars, tunVars, selVars, cfgVars, manager, exitCode>>

\* lines 24-27: MihomoManager::new() creates the data directories; when it
\* fails the process exits with code 1 before anything is dispatched
MainNew ==
    /\ cmd # "none"
    /\ manager = "none"
    /\ \E created \in BOOLEAN :
         /\ manager' = IF created THEN "ok" ELSE "failed"
         /\ exitCode' = IF created THEN exitCode ELSE 1
    /\ UNCHANGED <<supVars, tunVars, selVars, cfgVars, cmd>>

\* line 30: manager.status()
MainStatus == cmd = "status" /\ manager = "ok" /\ last.op = "none" /\ Status

\* line 31: manager.start(..), entered
MainStart == cmd = "start" /\ manager = "ok" /\ last.op = "none" /\ StartIsRunning

\* line 32: manager.stop()
MainStop == cmd = "stop" /\ manager = "ok" /\ last.op = "none" /\ Stop

\* line 33: try_tunnel_service(port), entered
MainTunnel == cmd = "tunnel" /\ manager = "ok" /\ TunnelCheck

\* lines 37-41: the process exits
MainExit ==
    /\ exitCode = None
    /\ MainReturned
    /\ exitCode' = MainExitCode(MainResult)
    /\ UNCHANGED <<supVars, tunVars, selVars, cfgVars, cmd, manager>>

\* what earlier runs may have left behind: a record or none, and processes
\* (of the supervisor or not) under some of the pids
ProcAt(pid) == pid - FirstPid + 1
SupPersisted ==
    /\ record \in {NoFile} \cup
                  {[exists |-> TRUE, content |-> PidToString(pid)] : pid \in Pids}
    /\ table \in {t \in [Pids -> 0..NumPids] : \A pid \in Pids : t[pid] \in {0, ProcAt(pid)}}
    /\ ours \in SUBSET (Range(table) \ {0})
    /\ nextId = NumPids + 1
    /\ pc = "idle"
    /\ prevProc = 0
    /\ newPid = None
    /\ newProc = 0
    /\ patched = {}
    /\ signalled = {}
    /\ started = FALSE
    /\ last = Returned("none", "ok", None, "absent")
    /\ quiet = TRUE
    /\ lastSpawn = [pid |-> None, proc |-> 0, saved |-> FALSE, returnedOk |-> FALSE]

(***************************************************************************)
(* Specifications                                                          *)
(***************************************************************************)
Init == SupInit /\ TunInit /\ SelInit /\ CfgIdle /\ MainIdle

Next ==
    \/ Status
    \/ Stop
    \/ StartIsRunning
    \/ StartStop
    \/ StartProvision
    \/ StartSpawn
    \/ StartSavePid
    \/ StartPatch
    \/ ExternalExit
    \/ ForeignSpawn

Spec == Init /\ [][Next]_vars

TunnelNext ==
    \/ TunnelCheck
    \/ TunnelLaunch
    \/ TunnelChildExit
    \/ TunnelConfirm

TunnelSpec == Init /\ [][TunnelNext]_vars

SelectorNext ==
    \/ SelProbe
    \/ SelFinish

SelectorSpec == Init /\ [][SelectorNext]_vars

SelectorAnyOrderInit == SupInit /\ TunInit /\ SelAnyOrderInit /\ CfgIdle /\ MainIdle

SelectorAnyOrderNext ==
    \/ SelProbeAny
    \/ SelFinish

SelectorAnyOrderSpec == SelectorAnyOrderInit /\ [][SelectorAnyOrderNext]_vars

MainInit == SupPersisted /\ TunInit /\ SelInit /\ CfgIdle /\ MainIdle

MainNext ==
    \/ MainParse
    \/ MainNew
    \/ MainStatus
    \/ MainStop
    \/ MainStart
    \/ StartStop
    \/ StartProvision
    \/ StartSpawn
    \/ StartSavePid
    \/ StartPatch
    \/ MainTunnel
    \/ TunnelLaunch
    \/ TunnelChildExit
    \/ TunnelConfirm
    \/ MainExit

MainSpec == MainInit /\ [][MainNext]_vars

ConfigInit == SupInit /\ TunInit /\ SelInit /\ CfgInit /\ MainIdle

ConfigNext ==
    \/ CfgUpdate
    \/ CfgParse

ConfigSpec == ConfigInit /\ [][ConfigNext]_vars

(***************************************************************************)
(* Properties of the supervisor (checked under Spec)                       *)
(***************************************************************************)
Idle == pc = "idle"
StopReturned == Idle /\ last.op = "stop"
StartSucceeded == Idle /\ last.op = "start" /\ last.res = "ok"

\* C1, as stated: after any stop call has returned, whatever its result, the
\* record file does not exist and a status call made then reports not running.
C1_AfterAnyStopNoRecord ==
    StopReturned => (~record.exists /\ IsRunningOut = None)

\* C1, amended: after any stop call that has returned success, the record file
\* does not exist and a status call made then reports not running.  (A stop
\* whose termination request is not delivered returns an error and leaves the
\* record in place.)
C1_AfterSuccessfulStopNoRecord ==
    (StopReturned /\ last.res = "ok") => (~record.exists /\ IsRunningOut = None)

\* C1 witness: a stop has killed the recorded live process and returned success.
C1_Witness ==
    StopReturned /\ last.res = "ok" /\ last.saw = "live" /\ signalled # {}

\* C2: when start is called while a process is running (record present, its pid
\* live) and returns success, the record tracks exactly one live process, the
\* newly spawned one, and the previously running process has exited.
C2_RestartLeavesOneTrackedProcess ==
    (StartSucceeded /\ quiet /\ prevProc # 0) =>
        /\ LoadPid = newPid
        /\ newProc # 0
        /\ newProc # prevProc
        /\ newProc \in ours
        /\ Process(LoadPid) = newProc
        /\ prevProc \notin Range(table)
        /\ {p \in Range(table) : p \in {prevProc, newProc}} = {newProc}

\* C2 witness: a start that found a process of the supervisor running has
\* returned success.
C2_Witness ==
    StartSucceeded /\ quiet /\ prevProc # 0 /\ prevProc \in ours

\* C3: a stop called when no start has ever happened returns success, leaves no
\* record file and sends no process a termination request.
C3_StopBeforeAnyStartSucceeds ==
    (StopReturned /\ ~started) =>
        /\ last.res = "ok"
        /\ ~record.exists
        /\ signalled = {}

\* C3 witness: such a stop has returned while an unrelated process is alive.
C3_Witness ==
    StopReturned /\ ~started /\ \E pid \in Pids : table[pid] # 0

\* C4: when the record holds a pid with no live process, status reports none
\* and deletes the record, and a second status with nothing changed reports
\* none again and changes nothing.
C4_StaleRecordSelfHeals ==
    (Idle /\ quiet /\ last.op = "status" /\ last.saw = "stale") =>
        /\ last.out = None
        /\ ~record.exists
        /\ IsRunningOut = None
        /\ IsRunningRecord = record

\* C4 witness: a status call has just met a stale record.
C4_Witness ==
    Idle /\ quiet /\ last.op = "status" /\ last.saw = "stale"

(***************************************************************************)
(* Properties of the tunnel sequence (checked under TunnelSpec)            *)
(***************************************************************************)
SomeNo == \E k \in 1..Len(answers) : ~answers[k]
FirstNo == CHOOSE k \in 1..Len(answers) :
               ~answers[k] /\ \A j \in 1..(k - 1) : answers[j]

\* C5: if the confirmation first answers "no" after the k-th attempt, exactly
\* the first k services' commands are invoked, no further service is attempted
\* and the call returns success.
C5_NoAfterKthAttemptStopsThere ==
    SomeNo =>
        /\ attempted = SubSeq(Services, 1, FirstNo)
        /\ Len(exitCodes) = FirstNo
        /\ running = {}
        /\ tpc = "done"
        /\ tresult = "ok"

\* C5 witness: "no" after the first attempt; one service was invoked.
C5_Witness ==
    tpc = "done" /\ answers = <<FALSE>> /\ attempted = <<Services[1]>>

\* C6, as stated: when ssh is not installed the tunnel sequence returns an
\* error (PrerequisiteMissing), not success.
C6_MissingSshIsAnError ==
    (tpc = "done" /\ sshFound = "missing") => tresult = "err"

\* C7: when ssh is absent no service command is invoked and no confirmation is
\* asked; a service is attempted only after the lookup has found ssh.
C7_MissingSshInvokesNothing ==
    /\ sshFound = "missing" =>
          /\ attempted = << >>
          /\ exitCodes = << >>
          /\ answers = << >>
          /\ running = {}
    /\ (attempted # << >> \/ answers # << >>) => sshFound = "found"

\* C7 witness: the call has returned with ssh missing.
C7_Witness ==
    tpc = "done" /\ sshFound = "missing"

(***************************************************************************)
(* Properties of the mirror selector (checked under SelectorSpec)          *)
(***************************************************************************)
Candidates == 1..Len(GithubProxies)
Succeeded(i) == probed[i].kind = "success"
SelDone == spc = "done"
\* the input position of the returned prefix (the prefixes are distinct)
SelectedIndex == CHOOSE i \in Candidates : GithubProxies[i] = selected.proxy
Success(t) == [kind |-> "success", elapsed |-> t]

\* C8: the returned candidate answered its probe with a success status and no
\* successfully probed candidate was faster; over direct = slow, mirror A =
\* fast, the others unreachable, mirror A is returned.
C8_ReturnsFastestSuccessful ==
    /\ (SelDone /\ selected.ok) =>
          /\ \E i \in Candidates : GithubProxies[i] = selected.proxy
          /\ Succeeded(SelectedIndex)
          /\ \A j \in Candidates :
                Succeeded(j) => probed[SelectedIndex].elapsed <= probed[j].elapsed
    /\ (SelDone /\ probed = <<Success(MaxElapsed), Success(1),
                              Failure("error"), Failure("timeout")>>)
          => selected = [ok |-> TRUE, proxy |-> GithubProxies[2]]

\* C8 witness: direct is slow, mirror A faster, a third candidate answered
\* fastest of all but with a bad status, the fourth timed out; mirror A is
\* returned.
C8_Witness ==
    /\ SelDone
    /\ probed[1] = Success(MaxElapsed)
    /\ probed[2] = Success(2)
    /\ probed[3] = [kind |-> "bad_status", elapsed |-> 1]
    /\ probed[4] = Failure("timeout")
    /\ selected.proxy = GithubProxies[2]

\* C9: the selector fails exactly when every candidate, the direct one
\* included, fails its probe; one successful probe is enough for success.
C9_FailsOnlyWhenAllFail ==
    SelDone =>
        /\ selected = NoProxyAvailable <=> (\A i \in Candidates : ~Succeeded(i))
        /\ selected.ok <=> (\E i \in Candidates : Succeeded(i))

\* C9 witness: every candidate failed and the call returned the error.
C9_Witness ==
    SelDone /\ selected = NoProxyAvailable /\ \A i \in Candidates : ~Succeeded(i)

\* C10: among successfully probed candidates with the same, minimal elapsed
\* time the one earliest in the input order is returned.
C10_TieGoesToEarliest ==
    (SelDone /\ selected.ok) =>
        \A j \in Candidates :
            (Succeeded(j) /\ \A m \in Candidates :
                                Succeeded(m) => probed[j].elapsed <= probed[m].elapsed)
                => SelectedIndex <= j

\* C10 witness: two candidates tie for the minimum and the earlier is returned.
C10_Witness ==
    /\ SelDone
    /\ selected.ok
    /\ \E j \in Candidates :
          /\ j > SelectedIndex
          /\ Succeeded(j)
          /\ probed[j].elapsed = probed[SelectedIndex].elapsed

(***************************************************************************)
(* Properties of the configuration file (checked under ConfigSpec)         *)
(***************************************************************************)
\* C11: for any port p and any mapping document, update_mixed_port(p) followed
\* by parse_mixed_port yields p, and every other key has the value it had.
C11_MixedPortRoundTrip ==
    (cpc = "read" /\ updateRes = "ok") =>
        /\ docBefore.mapping
        /\ readPort = newPort
        /\ \A k \in Keys \ {"mixed-port"} :
              MapGet(FromYaml(doc), k) = MapGet(FromYaml(docBefore), k)
        /\ MapGet(FromYaml(doc), "mixed-port") = IntValue(newPort)

\* C11 witness: the document held another mixed-port and a quoted string of
\* digits under another key; the largest port was written and read back.
C11_Witness ==
    /\ cpc = "read"
    /\ updateRes = "ok"
    /\ newPort = U16Modulus - 1
    /\ readPort = newPort
    /\ MapGet(FromYaml(docBefore), "mixed-port") = IntValue(70000)
    /\ MapGet(FromYaml(docBefore), "mode") = StrValue(<<8, 0>>)

(***************************************************************************)
(* The selector when the candidates are probed in any order or overlapping *)
(* (checked under SelectorAnyOrderSpec)                                    *)
(***************************************************************************)
\* candidate i answered with a success status, and no later than candidate j
\* (by the time its own request took; by input position when these are equal)
NoLaterThan(i, j) ==
    \/ took[i].elapsed < took[j].elapsed
    \/ took[i].elapsed = took[j].elapsed /\ i <= j

C13_SpawnOnlyAfterStopCompleted ==
    /\ [](pc \in {"start_save", "start_patch"} /\ prevProc # 0
             => prevProc \notin Range(table))
    /\ [][ /\ ours' # ours =>
                /\ pc = "start_spawn"
                /\ ~record.exists
                /\ prevProc # 0 => prevProc \notin Range(table)
           /\ (pc = "start_stop" /\ pc' = "idle") =>
                /\ last'.op = "start" /\ last'.res = "err"
                /\ prevProc \in Range(table')
                /\ ours' = ours /\ table' = table /\ record' = record
           /\ (pc = "start_stop" /\ pc' # "idle" /\ pc' # pc) =>
                /\ ~record'.exists
                /\ prevProc \notin Range(table')
         ]_vars

\* C13 witness: start found a process running, stopped it, and has spawned
\* the new one.
C13_Witness ==
    /\ pc = "start_save"
    /\ prevProc # 0
    /\ prevProc \in signalled
    /\ newProc \in Range(table)

\* the text is the decimal numeral of n: digits only, no leading zero
IsDecimalOf(text, n) ==
    /\ Len(text) >= 1
    /\ \A i \in 1..Len(text) : text[i] \in 0..9
    /\ Len(text) > 1 => text[1] # 0
    /\ DigitsValue(text) = n

\* C14: whenever the record exists its content is exactly the decimal id of
\* the process of the most recent successful spawn, whose id was saved; the
\* record is written only by the save step that follows a spawn at once, with
\* the id of the process just spawned and still alive; a failed spawn leaves the
\* record as it was.
C14_RecordIsLastSpawnedPid ==
    /\ [](record.exists =>
             /\ lastSpawn.saved
             /\ lastSpawn.pid \in Pids
             /\ lastSpawn.proc \in ours
             /\ IsDecimalOf(record.content, lastSpawn.pid))
    /\ [][ /\ (record' # record /\ record'.exists) =>
                /\ pc = "start_save"
                /\ lastSpawn.proc = newProc /\ lastSpawn.pid = newPid
                /\ ~lastSpawn.saved
                /\ table[newPid] = newProc
                /\ IsDecimalOf(record'.content, newPid)
           /\ (pc = "start_spawn" /\ pc' = "idle") =>
                /\ record' = record
                /\ lastSpawn' = lastSpawn
                /\ ours' = ours
           /\ (pc = "start_spawn" /\ pc' = "start_save") => ~record.exists
         ]_vars

\* C14 witness: a second start has replaced the record of the first by the
\* id of its own spawn, a number of two digits.
C14_Witness ==
    /\ record.exists
    /\ lastSpawn.saved
    /\ lastSpawn.pid >= 10
    /\ Cardinality(ours) >= 2
    /\ record.content = PidToString(lastSpawn.pid)

\* the state of the two-state machine Stopped / Running(pid): the pid of the
\* process spawned by the most recent successful start while that process is
\* alive (a stop that returned success has made it exit), None for Stopped
MachineState ==
    IF lastSpawn.returnedOk /\ lastSpawn.proc \in Range(table)
    THEN lastSpawn.pid
    ELSE None

\* the same machine when a start that spawned and recorded its process counts
\* as successful even if a later step of it failed
RecordedMachineState ==
    IF lastSpawn.saved /\ lastSpawn.proc \in Range(table)
    THEN lastSpawn.pid
    ELSE None

\* C15 read to the letter: a status call reports Running(pid) exactly when the
\* process spawned by the most recent start that returned success is alive.
\* (A start failing after it wrote the record already breaks this.)
C15_StatusReportsMachineState ==
    (Idle /\ last.op = "status" /\ quiet) => last.out = MachineState

\* C15: a status call reports Running(pid) exactly when the process spawned
\* and recorded by the most recent start is still alive and has not been
\* stopped since, and Stopped otherwise (the process table as it is at the
\* call; an external exit shows at the next call only).
C15_StatusReportsRecordedProcess ==
    (Idle /\ last.op = "status" /\ quiet) => last.out = RecordedMachineState

\* a step that is a whole `proxy-rs stop` call
StopStep == pc = "idle" /\ pc' = "idle" /\ last'.op = "stop" /\ quiet'

\* C16: stop returns an error exactly when a live process with the recorded
\* id is found and the termination request is not delivered (the process is
\* still there afterwards, and so is the record); with no record, with a stale
\* record, and when the request is delivered and the process has exited, stop
\* returns success and no record is left.
C16_StopFailsOnlyOnUndeliveredKill ==
    [][ StopStep =>
          LET pid == LoadPid
              p == Process(pid)
          IN  /\ last'.res \in {"ok", "err"}
              /\ last'.res = "err" <=> (p # 0 /\ table'[pid] = p)
              /\ last'.res = "err" =>
                    /\ p \in signalled'
                    /\ record' = record /\ table' = table
              /\ last'.res = "ok" =>
                    /\ ~record'.exists
                    /\ p # 0 => (p \in signalled' /\ table'[pid] = 0)
              /\ p = 0 =>
                    /\ last'.res = "ok"
                    /\ table' = table /\ signalled' = signalled
      ]_vars

\* C16 witness: a stop found the recorded process alive, could not deliver the
\* termination request and returned the error.
C16_Witness ==
    /\ StopReturned
    /\ last.res = "err"
    /\ last.saw = "live"
    /\ quiet
    /\ Process(LoadPid) \in signalled

\* start has returned after spawning a process whose id it could not record
SaveFailed ==
    /\ Idle /\ last.op = "start"
    /\ newProc # 0
    /\ lastSpawn.proc = newProc /\ ~lastSpawn.saved

\* C17: when start has spawned the process and the write of the record
\* failed, start has returned an error, the spawned process is running and no
\* record tracks it: status then reports none, and a stop then neither signals
\* nor terminates it.  Whatever happens later, the supervisor never signals
\* that process.
C17_SaveFailureLeavesOrphan ==
    /\ [](SaveFailed =>
             /\ last.res = "err"
             /\ ~record.exists
             /\ IsRunningOut = None
             /\ quiet => newProc \in Range(table))
    /\ [](~lastSpawn.saved => lastSpawn.proc \notin signalled)
    /\ [][ (SaveFailed /\ quiet /\ StopStep) =>
              /\ last'.res = "ok"
              /\ table' = table
              /\ newProc \in Range(table')
              /\ signalled' = signalled
         ]_vars
    /\ [][ (pc = "start_save" /\ pc' # pc /\ ~record'.exists) =>
              /\ pc' = "idle"
              /\ last'.op = "start" /\ last'.res = "err"
              /\ table' = table /\ table[newPid] = newProc
         ]_vars

\* C17 witness: after a start whose record could not be written, a stop has
\* returned success and the spawned process is still running, unrecorded.
C17_Witness ==
    /\ StopReturned /\ last.res = "ok"
    /\ quiet
    /\ lastSpawn.proc # 0 /\ ~lastSpawn.saved
    /\ lastSpawn.proc \in Range(table)
    /\ lastSpawn.proc \in ours
    /\ ~record.exists

\* C21: mixed-port and external-controller are patched only after the
\* process has been spawned and its pid persisted.  A key is written only by
\* the step of start that follows the save, when the record holds the pid of
\* the process just spawned; a start that returned without spawning, or without
\* recording the spawned process, has patched neither key; and whenever
\* mixed-port has been written the process had been launched before.
C21_PatchOnlyAfterSpawnAndSave ==
    /\ [](/\ patched \subseteq ConfigKeys
          /\ patched # {} =>
                /\ newProc # 0 /\ newProc \in ours
                /\ lastSpawn.proc = newProc /\ lastSpawn.saved
          /\ "external-controller" \in patched => "mixed-port" \in patched
          /\ (Idle /\ last.op = "start" /\ (newProc = 0 \/ ~lastSpawn.saved))
                => patched = {}
          /\ pc \in {"start_stop", "start_provision", "start_spawn", "start_save",
                     "start_patch"} => patched = {})
    /\ [][ (patched' # patched /\ patched' # {}) =>
              /\ pc = "start_patch"
              /\ record.exists
              /\ LoadPid = newPid
              /\ table[newPid] = newProc
              /\ record' = record /\ table' = table
         ]_vars

\* C21 witness: a start has spawned the process, recorded it and then patched
\* both keys; the process is running under the recorded pid.
C21_Witness ==
    /\ Idle /\ last.op = "start" /\ last.res = "ok"
    /\ patched = ConfigKeys
    /\ record.exists
    /\ LoadPid = newPid
    /\ Process(newPid) = newProc

\* C22: stop, and the stop implied by start, sends a termination request
\* only to a process this supervisor spawned; no unrelated process is ever
\* terminated, not even one that got the pid of a stale record, and status
\* never reports such a process as the running managed process.
C22_OnlyOwnProcessesTouched ==
    /\ signalled \subseteq ours
    /\ (Idle /\ last.op = "status" /\ quiet /\ last.out # None)
          => Process(last.out) \in ours

\* start has returned an error after it spawned a process and recorded it
FailedAfterSave ==
    /\ Idle /\ last.op = "start" /\ last.res = "err"
    /\ newProc # 0
    /\ lastSpawn.proc = newProc /\ lastSpawn.saved

\* a step that is a whole `proxy-rs status` call
StatusStep == pc = "idle" /\ pc' = "idle" /\ last'.op = "status" /\ quiet'

\* what C23 says of the state and of a following status
TrackedAfterLateFailure ==
    /\ [](FailedAfterSave =>
             /\ record.exists
             /\ LoadPid = newPid
             /\ quiet => (Process(newPid) = newProc /\ IsRunningOut = newPid))
    /\ [][ (FailedAfterSave /\ quiet /\ StatusStep) =>
              /\ last'.out = newPid
              /\ record' = record /\ table' = table
         ]_vars
    /\ [][ (pc = "start_patch" /\ pc' = "idle") =>
              /\ record' = record /\ table' = table
              /\ record.exists /\ LoadPid = newPid /\ table[newPid] = newProc
         ]_vars

\* C23 as stated: after a start that failed past the save the process stays
\* tracked, a following status reports it running, and a following stop
\* terminates it and removes the record.
C23_LateFailureStopAlwaysTerminates ==
    /\ TrackedAfterLateFailure
    /\ [][ (FailedAfterSave /\ quiet /\ StopStep) =>
              /\ newProc \in signalled'
              /\ newProc \notin Range(table')
              /\ ~record'.exists
         ]_vars

\* C23: after a start that failed past the save (port allocation, config
\* patching, the on/off scripts) start has returned an error and the process
\* stays tracked: the record holds its pid, a following status reports it
\* running, and a following stop sends it the termination request; when the
\* request is delivered stop returns success, the process has exited and the
\* record is removed, and when it is not, stop returns an error and process
\* and record stay.
C23_LateFailureKeepsProcessTracked ==
    /\ TrackedAfterLateFailure
    /\ [][ (FailedAfterSave /\ quiet /\ StopStep) =>
              /\ newProc \in signalled'
              /\ last'.res = "ok" =>
                    (newProc \notin Range(table') /\ ~record'.exists)
              /\ last'.res = "err" =>
                    (table' = table /\ record' = record)
         ]_vars

\* C23 witness: a start failed after recording its process; a later stop
\* signalled that process, which has exited, and removed the record.
C23_Witness ==
    /\ StopReturned /\ last.res = "ok" /\ last.saw = "live"
    /\ lastSpawn.saved /\ ~lastSpawn.returnedOk
    /\ lastSpawn.proc \in signalled
    /\ lastSpawn.proc \notin Range(table)
    /\ ~record.exists

(***************************************************************************)
(* Further properties of the tunnel sequence (checked under TunnelSpec)    *)
(***************************************************************************)
\* C18: the services are attempted in list order with no overlap.  At most
\* one command runs at a time, and it is the last one launched; a command is
\* launched only when every earlier command has exited and the confirmation
\* asked after each of those exits was answered yes; exactly one confirmation
\* is asked after each exit, the last service's included, and only after an
\* exit.
C18_InOrderNoOverlap ==
    /\ [](/\ Len(attempted) <= Len(Services)
          /\ attempted = SubSeq(Services, 1, Len(attempted))
          /\ Cardinality(running) <= 1
          /\ running \subseteq {Len(attempted)}
          /\ Len(exitCodes) = Len(attempted) - Cardinality(running)
          /\ Len(answers) = IF tpc = "confirm" THEN Len(exitCodes) - 1
                                               ELSE Len(exitCodes)
          /\ tpc = "confirm" => running = {}
          /\ \A i \in 1..(Len(attempted) - 1) : answers[i])
    /\ [][ /\ attempted' # attempted =>
                /\ running = {}
                /\ Len(exitCodes) = Len(attempted)
                /\ Len(answers) = Len(attempted)
                /\ \A i \in 1..Len(attempted) : answers[i]
                /\ attempted' = Append(attempted, Services[Len(attempted) + 1])
           /\ answers' # answers =>
                /\ tpc = "confirm"
                /\ running = {}
                /\ Len(answers') = Len(exitCodes)
                /\ exitCodes' = exitCodes
         ]_vars

\* C18 witness: all three services were run one after the other, and the
\* confirmation after the last one was asked too (and answered no).
C18_Witness ==
    /\ tpc = "done"
    /\ attempted = Services
    /\ Len(exitCodes) = Len(Services)
    /\ answers = <<TRUE, TRUE, FALSE>>
    /\ running = {}

\* how many services a sequence of answers lets run: up to and including the
\* one after which the first "no" was given
RunCount(ans) ==
    IF \E i \in 1..Len(ans) : ~ans[i]
    THEN CHOOSE i \in 1..Len(ans) : ~ans[i] /\ \A j \in 1..(i - 1) : ans[j]
    ELSE Len(Services)

\* C19: every child outcome is treated alike.  Whatever the exit codes and
\* launch failures were, when the call has returned (ssh present) it returned
\* success, one exit code was noted and one answer taken per service run, and
\* the services run are those the answers alone determine; with every answer
\* yes each service was run exactly once.  No outcome ever makes the result an
\* error.
C19_OutcomesNeverChangeTheCourse ==
    /\ tresult # "err"
    /\ (tpc = "done" /\ sshFound = "found") =>
          /\ tresult = "ok"
          /\ Len(exitCodes) = Len(attempted)
          /\ Len(answers) = Len(attempted)
          /\ attempted = SubSeq(Services, 1, RunCount(answers))
          /\ (\A i \in 1..Len(answers) : answers[i]) => attempted = Services

\* C19 witness: with every answer yes, the three services ended with exit
\* code 0, with a failure and with another failure, and the call returned
\* success after running each once.
C19_Witness ==
    /\ tpc = "done"
    /\ tresult = "ok"
    /\ answers = <<TRUE, TRUE, TRUE>>
    /\ attempted = Services
    /\ exitCodes = <<0, 1, 255>>

============================================================================
